---- MODULE Spec2Model ----
(***************************************************************************)
(* Model of four helpers of porespy/tools/__funcs__.py:                    *)
(*   randomize_colors, make_contiguous, extract_cylinder and               *)
(*   find_outer_region (with extract_subsection).                          *)
(* The helpers share no state.  Each action is one call: it draws the      *)
(* arguments from bounded sets and records the arguments, the returned     *)
(* array and, for extract_cylinder, the caller's array after the call.     *)
(* Greyscale images are kept flattened (flatten / reshape only change the  *)
(* shape); integers are unbounded, i.e. the values are assumed far from    *)
(* the limits of the array's dtype.                                        *)
(***************************************************************************)
EXTENDS FiniteSets, Integers, Sequences

\* ---- bounds -------------------------------------------------------------
\* longest flattened greyscale image
MaxLen == 3
\* largest greyscale value
MaxVal == 3
\* most negative greyscale value is -MaxNeg (make_contiguous)
MaxNeg == 2
\* longest side of a voxel image (extract_cylinder, find_outer_region)
MaxSide == 3
\* most voxels in an image passed to extract_cylinder
MaxVoxels == 8
\* largest radius argument
MaxR == 2
\* largest value of int(amax(distance transform)) in find_outer_region
MaxDT == 2

VARIABLES called,
          rc_im, rc_keep, rc_out, rc_status,
          mc_im, mc_keep_zeros, mc_out, mc_status,
          ec_before, ec_shape, ec_r, ec_axis, ec_im, ec_ret, ec_status,
          fo_shape, fo_r, fo_pad, fo_slc, fo_sel, fo_out_shape

rc_vars == <<rc_im, rc_keep, rc_out, rc_status>>
mc_vars == <<mc_im, mc_keep_zeros, mc_out, mc_status>>
ec_vars == <<ec_before, ec_shape, ec_r, ec_axis, ec_im, ec_ret, ec_status>>
fo_vars == <<fo_shape, fo_r, fo_pad, fo_slc, fo_sel, fo_out_shape>>
vars == <<called, rc_vars, mc_vars, ec_vars, fo_vars>>

\* ---- numpy helpers ------------------------------------------------------
\* the python value None; a radius that is given is a one-element tuple
None == <<>>

Range(s) == {s[i] : i \in DOMAIN s}

\* sp.amin / sp.amax of a non-empty collection
amin(S) == CHOOSE m \in S : \A x \in S : m <= x
amax(S) == CHOOSE m \in S : \A x \in S : x <= m

\* sp.unique: the distinct values, in ascending order
RECURSIVE unique(_)
unique(S) == IF S = {} THEN <<>>
             ELSE LET m == amin(S) IN <<m>> \o unique(S \ {m})

\* every ordering sp.random.permutation can return for an array of length k
permutation(k) == {p \in [1..k -> 1..k] : \A i, j \in 1..k : p[i] = p[j] => i = j}

\* flattened images of values lo..hi
FlatImages(lo, hi) == UNION {[1..n -> lo..hi] : n \in 0..MaxLen}

\* ---- randomize_colors ---------------------------------------------------
\* sp.zeros(amax(im_vals) + 1) followed by im_map[im_vals] = new_vals
ColorMap(im_vals, new_vals) ==
    [v \in 0..amax(Range(im_vals)) |->
        IF \E j \in DOMAIN im_vals : im_vals[j] = v
        THEN new_vals[CHOOSE j \in DOMAIN im_vals : im_vals[j] = v]
        ELSE 0]

\* p is the ordering drawn by sp.random.permutation
randomize_colors(im, keep_vals, p) ==
    LET im_flat   == im
        swap_vals == [i \in DOMAIN im_flat |-> ~(im_flat[i] \in keep_vals)]
        im_vals   == unique({im_flat[i] : i \in {j \in DOMAIN im_flat : swap_vals[j]}})
        new_vals  == [j \in DOMAIN im_vals |-> im_vals[p[j]]]
    IN  IF im_vals = <<>>
        THEN [status |-> "ValueError", out |-> <<>>]   \* amax of an empty array
        ELSE LET im_map == ColorMap(im_vals, new_vals)
             IN  IF \E i \in DOMAIN im_flat : im_flat[i] \notin DOMAIN im_map
                 THEN [status |-> "IndexError", out |-> <<>>]
                 ELSE [status |-> "ok",
                       out |-> [i \in DOMAIN im_flat |-> im_map[im_flat[i]]]]

\* the number of values randomize_colors permutes
NumSwapped(im, keep_vals) == Cardinality(Range(im) \ keep_vals)

CallRandomizeColors ==
    /\ called = "none"
    /\ \E im \in FlatImages(0, MaxVal), keep_vals \in SUBSET (0..MaxVal) :
         \E p \in permutation(NumSwapped(im, keep_vals)) :
            LET res == randomize_colors(im, keep_vals, p)
            IN  /\ rc_im' = im
                /\ rc_keep' = keep_vals
                /\ rc_out' = res.out
                /\ rc_status' = res.status
    /\ called' = "randomize_colors"
    /\ UNCHANGED <<mc_vars, ec_vars, fo_vars>>

\* ---- make_contiguous ----------------------------------------------------
\* variant of KeepZerosShift: the zeros are moved onto the smallest value
\* (the "- 1" of line 606 dropped)
KeepZerosShift_NoGap(im) ==
    LET below == amin(Range(im))
    IN  [i \in DOMAIN im |-> IF im[i] = 0 THEN below ELSE im[i]]

\* lines 604-606: the zeros are moved below the smallest value
KeepZerosShift(im) ==
    LET below == amin(Range(im)) - 1
    IN  [i \in DOMAIN im |-> IF im[i] = 0 THEN below ELSE im[i]]

\* sp.zeros(amax + 1) followed by im_map[im_vals] = sp.arange(0, size)
ContiguousMap(im_flat) ==
    LET im_vals == unique(Range(im_flat))
    IN  [v \in 0..amax(Range(im_flat)) |->
            IF \E j \in DOMAIN im_vals : im_vals[j] = v
            THEN (CHOOSE j \in DOMAIN im_vals : im_vals[j] = v) - 1
            ELSE 0]

make_contiguous(im, keep_zeros) ==
    IF im = <<>>
    THEN [status |-> "ValueError", out |-> <<>>]       \* min of an empty array
    ELSE LET im1     == IF keep_zeros THEN KeepZerosShift(im) ELSE im
             lowest  == amin(Range(im1))
             im_flat == [i \in DOMAIN im1 |-> im1[i] - lowest]
             im_map  == ContiguousMap(im_flat)
         IN  [status |-> "ok",
              out |-> [i \in DOMAIN im_flat |-> im_map[im_flat[i]]]]

CallMakeContiguous ==
    /\ called = "none"
    /\ \E im \in FlatImages(-MaxNeg, MaxVal), keep_zeros \in BOOLEAN :
            LET res == make_contiguous(im, keep_zeros)
            IN  /\ mc_im' = im
                /\ mc_keep_zeros' = keep_zeros
                /\ mc_out' = res.out
                /\ mc_status' = res.status
    /\ called' = "make_contiguous"
    /\ UNCHANGED <<rc_vars, ec_vars, fo_vars>>

\* ---- extract_cylinder ---------------------------------------------------
\* image shapes: one to three axes, sides 1..MaxSide, at most MaxVoxels voxels
RECURSIVE Prod(_)
Prod(s) == IF s = <<>> THEN 1 ELSE Head(s) * Prod(Tail(s))

Shapes(ndims) == UNION {[1..n -> 1..MaxSide] : n \in ndims}

\* the (0-based) indices of an array of the given shape
Indices(shape) ==
    {idx \in [DOMAIN shape -> 0..(amax(Range(shape)) - 1)] :
        \A d \in DOMAIN shape : idx[d] < shape[d]}

BoolImages(shape) == [Indices(shape) -> BOOLEAN]

\* int(x/2) for an integer x: python's int() truncates towards zero
IntHalf(x) == IF x >= 0 THEN x \div 2 ELSE -((-x) \div 2)

\* line 341: the k-th element (k = 0, 1, ..) of
\* range(int(-s/2), int(s/2) + s % 2)
DimCoord(s, k) == IntHalf(-s) + k

\* lines 342-344: square of the distance d of a voxel from the cylinder's axis
DistSq(shape, axis, idx) ==
    LET sq(d) == IF d = axis + 1 THEN 0
                 ELSE DimCoord(shape[d], idx[d]) * DimCoord(shape[d], idx[d])
        RECURSIVE Sum(_)
        Sum(d) == IF d = 0 THEN 0 ELSE sq(d) + Sum(d - 1)
    IN  Sum(Len(shape))

\* lines 338-340: the default radius; the empty value stands for the
\* ValueError amin raises when no axis is left
DefaultRadius(shape, axis) ==
    LET a == {shape[d] : d \in DOMAIN shape \ {axis + 1}}
    IN  IF a = {} THEN None ELSE <<amin(a) \div 2>>

\* line 346, im[~mask] = True: the array the statement writes to
MaskedAssign(im, mask) == [idx \in DOMAIN im |-> IF mask[idx] THEN im[idx] ELSE TRUE]

\* im is the caller's array; the result holds that array after the call and
\* the returned array
extract_cylinder(im, shape, r, axis) ==
    LET rr == IF r = None THEN DefaultRadius(shape, axis) ELSE r
    IN  IF rr = None
        THEN [status |-> "ValueError", im |-> im, ret |-> <<>>]
        ELSE LET mask == [idx \in DOMAIN im |->
                              DistSq(shape, axis, idx) <= rr[1] * rr[1]]
                 new  == MaskedAssign(im, mask)
             IN  [status |-> "ok", im |-> new, ret |-> new]

CallExtractCylinder ==
    /\ called = "none"
    /\ \E shape \in {s \in Shapes({1, 2, 3}) : Prod(s) <= MaxVoxels} :
         \E im \in BoolImages(shape), r \in {None} \cup {<<k>> : k \in 0..MaxR},
            axis \in 0..(Len(shape) - 1) :
            LET res == extract_cylinder(im, shape, r, axis)
            IN  /\ ec_before' = im
                /\ ec_shape' = shape
                /\ ec_r' = r
                /\ ec_axis' = axis
                /\ ec_im' = res.im
                /\ ec_ret' = res.ret
                /\ ec_status' = res.status
    /\ called' = "extract_cylinder"
    /\ UNCHANGED <<rc_vars, mc_vars, fo_vars>>

\* ---- extract_subsection and find_outer_region ---------------------------
\* a[lo:hi] on an axis of length n: the indices the slice selects, in order
SliceIndices(lo, hi, n) ==
    LET norm(x) == IF x < 0 THEN (IF x + n < 0 THEN 0 ELSE x + n)
                   ELSE (IF x > n THEN n ELSE x)
        a == norm(lo)
        b == norm(hi)
    IN  [k \in 1..(IF b > a THEN b - a ELSE 0) |-> a + k - 1]

\* variant of Center2: the centre computed with integer (floor) division
Center2_Floor(im_shape) == [d \in DOMAIN im_shape |-> 2 * (im_shape[d] \div 2)]

\* line 389, center = sp.array(im.shape)/2 (true division), kept doubled
Center2(im_shape) == im_shape

\* lines 386-395 for integer shapes: the slices [lower, upper) of each axis.
\* Halves are kept exact by working with doubled values until int().
extract_subsection(im_shape, shape) ==
    LET shp == IF shape[1] < 1
               THEN [d \in DOMAIN shape |-> im_shape[d] * shape[d]]
               ELSE shape
        center2 == Center2(im_shape)
        lower2(d) == IF center2[d] - shp[d] > 0 THEN center2[d] - shp[d] ELSE 0
        upper2(d) == IF center2[d] + shp[d] < 2 * im_shape[d]
                     THEN center2[d] + shp[d] ELSE 2 * im_shape[d]
    IN  [d \in DOMAIN im_shape |-> <<IntHalf(lower2(d)), IntHalf(upper2(d))>>]

\* lines 294-298: the radius the image is padded by; dtmax is
\* int(sp.amax(distance_transform_edt(im)))
PadWidth(r, dtmax) == IF r = 0 THEN dtmax * 2 ELSE r

\* sp.pad(..., pad_width=r): the shape of im_padded
PaddedShape(shape, r) == [d \in DOMAIN shape |-> shape[d] + 2 * r]

CallFindOuterRegion ==
    /\ called = "none"
    /\ \E shape \in Shapes({1, 2, 3}), r \in 0..MaxR, dtmax \in 0..MaxDT :
            LET pad    == PadWidth(r, dtmax)
                padded == PaddedShape(shape, pad)
                slc    == extract_subsection(padded, shape)
                sel    == [d \in DOMAIN padded |->
                              SliceIndices(slc[d][1], slc[d][2], padded[d])]
            IN  /\ fo_shape' = shape
                /\ fo_r' = r
                /\ fo_pad' = pad
                /\ fo_slc' = slc
                /\ fo_sel' = sel
                /\ fo_out_shape' = [d \in DOMAIN sel |-> Len(sel[d])]
    /\ called' = "find_outer_region"
    /\ UNCHANGED <<rc_vars, mc_vars, ec_vars>>

\* ---- specification ------------------------------------------------------
Init ==
    /\ called = "none"
    /\ rc_im = <<>> /\ rc_keep = {} /\ rc_out = <<>> /\ rc_status = "none"
    /\ mc_im = <<>> /\ mc_keep_zeros = FALSE /\ mc_out = <<>> /\ mc_status = "none"
    /\ ec_before = <<>> /\ ec_shape = <<>> /\ ec_r = None /\ ec_axis = 0
    /\ ec_im = <<>> /\ ec_ret = <<>> /\ ec_status = "none"
    /\ fo_shape = <<>> /\ fo_r = 0 /\ fo_pad = 0 /\ fo_slc = <<>>
    /\ fo_sel = <<>> /\ fo_out_shape = <<>>

Next ==
    \/ CallRandomizeColors
    \/ CallMakeContiguous
    \/ CallExtractCylinder
    \/ CallFindOuterRegion

Spec == Init /\ [][Next]_vars
\* ---- properties ---------------------------------------------------------
RcReturned == called = "randomize_colors" /\ rc_status = "ok"
McReturned == called = "make_contiguous" /\ mc_status = "ok"

\* C1: in the image randomize_colors returns, every voxel whose input value
\* is listed in keep_vals still has its input value.
C1_KeepValsUnaltered ==
    RcReturned =>
        \A i \in DOMAIN rc_im : rc_im[i] \in rc_keep => rc_out[i] = rc_im[i]

\* C2: the image randomize_colors returns is a consistent relabelling (two
\* voxels are equal in the output iff they are equal in the input) and has
\* the same set of unique values as the input.
C2_ConsistentRelabelling ==
    RcReturned =>
        /\ \A i, j \in DOMAIN rc_im :
              (rc_out[i] = rc_out[j]) <=> (rc_im[i] = rc_im[j])
        /\ Range(rc_out) = Range(rc_im)

C4_MostNegative ==
    (McReturned /\ \E i \in DOMAIN mc_im : mc_im[i] < 0) =>
        \A i \in DOMAIN mc_im :
            /\ (~mc_keep_zeros /\ mc_im[i] = amin(Range(mc_im))) => mc_out[i] = 0
            /\ (mc_keep_zeros /\ mc_im[i] = amin(Range(mc_im))) => mc_out[i] = 1
            /\ (mc_keep_zeros /\ mc_im[i] = 0) => mc_out[i] = 0

\* C5: after extract_cylinder the array the caller passed holds the values it
\* held before the call.
C5_CallerArrayUntouched ==
    called = "extract_cylinder" => ec_im = ec_before

\* C6: the final extract_subsection of find_outer_region selects, on every
\* axis d of the array padded by r, exactly the indices r .. r+N[d]-1, and
\* the returned mask has the shape N of im.
C6_SubsectionUndoesPadding ==
    called = "find_outer_region" =>
        /\ \A d \in DOMAIN fo_shape :
              fo_sel[d] = [k \in 1..fo_shape[d] |-> fo_pad + k - 1]
        /\ fo_out_shape = fo_shape

\* a 3D image with an odd and an even side, padded by a positive radius
C6_Witness ==
    /\ called = "find_outer_region"
    /\ Len(fo_shape) = 3
    /\ fo_pad > 0
    /\ \E d, e \in DOMAIN fo_shape : fo_shape[d] % 2 = 1 /\ fo_shape[e] % 2 = 0
    /\ fo_sel[1][1] = fo_pad
====
